---- MODULE Spec2Model ----
(***************************************************************************)
(* The weighted-round-robin policy of the loadbalance plugin               *)
(* (plugin/loadbalance/weighted.go): the weight file parser, the reload    *)
(* (updateWeights), the two selectors (nextTopIP), the answer reorder      *)
(* (weightedRoundRobin / setTopRecord), and the start of the plugin        *)
(* (setup: periodicWeightUpdate, then the startup load).                   *)
(*                                                                         *)
(* Text is modelled down to the characters the parser looks at: a token is *)
(* a sequence of one-character strings, a line is the sequence of tokens   *)
(* strings.Fields gives for it, a file content is a sequence of lines.     *)
(* updateWeights and setTopRecord run from Lock to Unlock, so each is one  *)
(* atomic action.                                                          *)
(***************************************************************************)
EXTENDS Integers, Sequences, FiniteSets, TLC

\* ------------------------------------------------------------------ bounds

\* matched reorders counted per domain between two reloads
MaxMatched == 4
\* the shared generator's state is its number of draws modulo this period
RnPeriod == 2

\* ------------------------------------------------------------------ text

\* the largest value of weightItem.value (uint8) and of one byte of an address
MaxUint8 == 255

Digits == {"0", "1", "2", "3", "4", "5", "6", "7", "8", "9"}

DigitVal(c) ==
    CASE c = "0" -> 0 [] c = "1" -> 1 [] c = "2" -> 2 [] c = "3" -> 3
      [] c = "4" -> 4 [] c = "5" -> 5 [] c = "6" -> 6 [] c = "7" -> 7
      [] c = "8" -> 8 [] c = "9" -> 9

\* the value of a digit string in the given base, most significant first
RECURSIVE NumVal(_, _)
NumVal(s, base) ==
    IF s = <<>> THEN 0
    ELSE NumVal(SubSeq(s, 1, Len(s) - 1), base) * base + DigitVal(s[Len(s)])

AllDigits(s) == \A i \in 1..Len(s) : s[i] \in Digits

\* strconv.ParseUint(tok, 10, 8): only digits (no sign), and the value fits 8 bits
\* (on a range error ParseUint returns the largest 8-bit value with the error)
ParseUint8(tok) ==
    IF tok = <<>> \/ ~AllDigits(tok) THEN [ok |-> FALSE, val |-> 0]
    ELSE IF NumVal(tok, 10) > MaxUint8 THEN [ok |-> FALSE, val |-> MaxUint8]
    ELSE [ok |-> TRUE, val |-> NumVal(tok, 10)]

\* the pieces of s between the occurrences of the separator
RECURSIVE SplitOn(_, _)
SplitOn(s, sep) ==
    IF \A i \in 1..Len(s) : s[i] /= sep THEN <<s>>
    ELSE LET p == CHOOSE i \in 1..Len(s) :
                      s[i] = sep /\ \A j \in 1..(i - 1) : s[j] /= sep
         IN  <<SubSeq(s, 1, p - 1)>> \o SplitOn(SubSeq(s, p + 1, Len(s)), sep)

\* one decimal field of a dotted quad: 1 to 3 digits, no leading zero, at most 255
QuadField(f) ==
    /\ Len(f) \in 1..3
    /\ AllDigits(f)
    /\ (Len(f) > 1 => f[1] /= "0")
    /\ NumVal(f, 10) <= MaxUint8

\* a net.IP value: its family and its bytes (its hexadecimal group for ::h); nil has none
NilIP == [fam |-> "nil", bytes |-> <<>>]

\* net.ParseIP on the literals the weight files use: a dotted quad a.b.c.d, or the
\* IPv6 form ::h with h one to four hexadecimal digits (written with 0-9 here).
\* Any other token is not an IP literal. The value is the address, tagged by family.
ParseIP(tok) ==
    LET q == SplitOn(tok, ".")
    IN  IF Len(q) = 4 /\ \A i \in 1..4 : QuadField(q[i])
        THEN [fam |-> "v4", bytes |-> [i \in 1..4 |-> NumVal(q[i], 10)]]
        ELSE IF /\ Len(tok) \in 3..6
                /\ tok[1] = ":" /\ tok[2] = ":"
                /\ AllDigits(SubSeq(tok, 3, Len(tok)))
        THEN [fam |-> "v6", bytes |-> <<NumVal(SubSeq(tok, 3, Len(tok)), 16)>>]
        ELSE NilIP

\* net.IP.Equal of a record's address with the expected top IP: the same address;
\* two addresses of length 0 (nil) are equal too
IPEqual(a, b) == a = b

\* ------------------------------------------------------------------ weight files

\* tokens of the modelled files
w1 == <<"w", "1">>
w1dot == <<"w", "1", ".">>
w2 == <<"w", "2">>
w2dot == <<"w", "2", ".">>
ip14 == <<"1", ".", "1", ".", "1", ".", "4">>
ip15 == <<"1", ".", "1", ".", "1", ".", "5">>
ip300 == <<"1", ".", "1", ".", "1", ".", "3", "0", "0">>
ip61 == <<":", ":", "1">>
ip62 == <<":", ":", "2">>
comment == <<"#", "w">>

\* oneDomainWRR, with the weights 10 and 20 scaled to 1 and 2
FOne == << <<w1>>, <<ip15, <<"1">>>>, <<ip14, <<"2">>>> >>
\* twoDomainsWRR: comment and blank lines, a second domain written with its dot,
\* and two entries of equal weight
FTwo == << <<comment, w1>>, <<w1>>, <<ip15, <<"1">>>>, <<ip14, <<"2">>>>, <<>>,
           <<comment>>, <<w2dot>>, <<ip61, <<"2">>>>, <<ip62, <<"2">>>> >>
\* missingWeightWRR
FMissingWeight == << <<w1>>, <<ip14>>, <<ip15, <<"2">>>> >>
\* missingDomainWRR
FMissingDomain == << <<comment>>, <<ip14, <<"1">>>>, <<w2>>, <<ip61, <<"1">>>> >>
\* wrongIpWRR
FWrongIP == << <<w1>>, <<ip300, <<"1">>>> >>
\* wrongWeightWRR, after a domain with two good entries and a second header
FWrongWeight == << <<w1>>, <<ip15, <<"1">>>>, <<ip14, <<"2">>>>, <<w2>>,
                   <<ip61, <<"3", "0", "0">>>> >>
\* a weight of zero
FZeroWeight == << <<w1>>, <<ip14, <<"0">>>>, <<ip15, <<"1">>>> >>
\* a header followed by no IP/weight line
FEmptyDomain == << <<w1>>, <<ip14, <<"1">>>>, <<w2>> >>
\* a header met twice, the second time with its dot; the weights of FOne exchanged
FRepeat == << <<w1>>, <<ip15, <<"2">>>>, <<w2>>, <<ip61, <<"1">>>>, <<w1dot>>, <<ip14, <<"1">>>> >>
\* a line of three tokens
FThree == << <<w1>>, <<ip14, <<"1">>, <<"2">>>> >>
\* the empty file
FEmpty == << >>
\* no header: an entry with a wrong IP address, then an IP address alone on its line
FBadThenIP == << <<ip300, <<"1">>>>, <<ip14>> >>
\* no header: an IP address alone on its line, then a good entry
FIPThenEntry == << <<ip14>>, <<ip15, <<"1">>>> >>

Files == <<FOne, FTwo, FMissingWeight, FMissingDomain, FWrongIP, FWrongWeight,
           FZeroWeight, FEmptyDomain, FRepeat, FThree, FEmpty, FBadThenIP, FIPThenEntry>>

\* the weight file is absent (os.Open fails)
NoFile == 0
FileIds == 1..Len(Files)

\* the contents the file is rewritten to while the server runs; every content of
\* Files can be the one found at startup
Rewrites == {f \in FileIds : Files[f] \in {FOne, FTwo, FWrongWeight}}

\* md5.Sum of a content: equal contents have equal digests, and no two of the
\* modelled contents collide; the zero digest is the one of no content of Files
ZeroDigest == 0
Md5Sum(bytes) == CHOOSE i \in FileIds : Files[i] = bytes

\* ------------------------------------------------------------------ parser

NoErr == "nil"
ErrOpen == "Weight file open error"
ErrDomainName == "Wrong domain name"
ErrIP == "Wrong IP address"
ErrWeight == "Wrong weight value"
ErrMissingDomain == "Missing domain name"
ErrLine == "Could not parse weight line"
\* an index out of range, or rand.Intn of a non-positive number
Panic == "panic"

\* no domain is current yet (curd == nil)
NoKey == <<>>

EmptyMap == [k \in {} |-> NilIP]

\* &domain{} with the updater of the mode
NewDomain(random) ==
    [weights |-> <<>>,
     topIP |-> NilIP,
     topIPupdater |-> IF random THEN [kind |-> "randomizedWRR", wsum |-> 0]
                      ELSE [kind |-> "determininsticWRR", index |-> 0, count |-> 0]]

MapPut(m, key, val) == [k \in (DOMAIN m) \cup {key} |-> IF k = key THEN val ELSE m[k]]

\* add the root domain if it is missing
Normalize(dname) == IF dname[Len(dname)] /= "." THEN Append(dname, ".") ELSE dname

\* the scanner loop turn that looks for the current domain before it parses the
\* two tokens
ParseLine_DomainFirst(st, fields, random) ==
    IF st.err /= NoErr THEN st
    ELSE IF Len(fields) = 0 \/ fields[1][1] = "#" THEN st
    ELSE IF Len(fields) = 1 THEN
        IF ParseIP(fields[1]) /= NilIP THEN [st EXCEPT !.err = ErrDomainName]
        ELSE LET dname == Normalize(fields[1])
             IN  [st EXCEPT !.curd = dname,
                            !.domains = IF dname \in DOMAIN st.domains THEN st.domains
                                        ELSE MapPut(st.domains, dname, NewDomain(random))]
    ELSE IF Len(fields) = 2 THEN
        LET ip == ParseIP(fields[1])
            weight == ParseUint8(fields[2])
        IN  IF st.curd = NoKey THEN [st EXCEPT !.err = ErrMissingDomain]
            ELSE IF ip = NilIP THEN [st EXCEPT !.err = ErrIP]
            ELSE IF ~weight.ok THEN [st EXCEPT !.err = ErrWeight]
            ELSE [st EXCEPT !.domains[st.curd].weights =
                                Append(@, [address |-> ip, value |-> weight.val])]
    ELSE [st EXCEPT !.err = ErrLine]

\* the scanner loop turn without the sanity check of a name
ParseLine_NoSanity(st, fields, random) ==
    IF st.err /= NoErr THEN st
    ELSE IF Len(fields) = 0 \/ fields[1][1] = "#" THEN st
    ELSE IF Len(fields) = 1 THEN
        LET dname == Normalize(fields[1])
        IN  [st EXCEPT !.curd = dname,
                       !.domains = IF dname \in DOMAIN st.domains THEN st.domains
                                   ELSE MapPut(st.domains, dname, NewDomain(random))]
    ELSE IF Len(fields) = 2 THEN
        LET ip == ParseIP(fields[1])
            weight == ParseUint8(fields[2])
        IN  IF ip = NilIP THEN [st EXCEPT !.err = ErrIP]
            ELSE IF ~weight.ok THEN [st EXCEPT !.err = ErrWeight]
            ELSE IF st.curd = NoKey THEN [st EXCEPT !.err = ErrMissingDomain]
            ELSE [st EXCEPT !.domains[st.curd].weights =
                                Append(@, [address |-> ip, value |-> weight.val])]
    ELSE [st EXCEPT !.err = ErrLine]

\* the scanner loop turn whose header always starts a new weight list
ParseLine_HeaderReplaces(st, fields, random) ==
    IF st.err /= NoErr THEN st
    ELSE IF Len(fields) = 0 \/ fields[1][1] = "#" THEN st
    ELSE IF Len(fields) = 1 THEN
        IF ParseIP(fields[1]) /= NilIP THEN [st EXCEPT !.err = ErrDomainName]
        ELSE LET dname == Normalize(fields[1])
             IN  [st EXCEPT !.curd = dname,
                            !.domains = MapPut(st.domains, dname, NewDomain(random))]
    ELSE IF Len(fields) = 2 THEN
        LET ip == ParseIP(fields[1])
            weight == ParseUint8(fields[2])
        IN  IF ip = NilIP THEN [st EXCEPT !.err = ErrIP]
            ELSE IF ~weight.ok THEN [st EXCEPT !.err = ErrWeight]
            ELSE IF st.curd = NoKey THEN [st EXCEPT !.err = ErrMissingDomain]
            ELSE [st EXCEPT !.domains[st.curd].weights =
                                Append(@, [address |-> ip, value |-> weight.val])]
    ELSE [st EXCEPT !.err = ErrLine]

\* one turn of the scanner loop on the fields of a line; st = [domains, curd, err]
ParseLine(st, fields, random) ==
    IF st.err /= NoErr THEN st
    ELSE IF Len(fields) = 0 \/ fields[1][1] = "#" THEN st
    ELSE IF Len(fields) = 1 THEN
        IF ParseIP(fields[1]) /= NilIP THEN [st EXCEPT !.err = ErrDomainName]
        ELSE LET dname == Normalize(fields[1])
             IN  [st EXCEPT !.curd = dname,
                            !.domains = IF dname \in DOMAIN st.domains THEN st.domains
                                        ELSE MapPut(st.domains, dname, NewDomain(random))]
    ELSE IF Len(fields) = 2 THEN
        LET ip == ParseIP(fields[1])
            weight == ParseUint8(fields[2])
        IN  IF ip = NilIP THEN [st EXCEPT !.err = ErrIP]
            ELSE IF ~weight.ok THEN [st EXCEPT !.err = ErrWeight]
            ELSE IF st.curd = NoKey THEN [st EXCEPT !.err = ErrMissingDomain]
            ELSE [st EXCEPT !.domains[st.curd].weights =
                                Append(@, [address |-> ip, value |-> weight.val])]
    ELSE [st EXCEPT !.err = ErrLine]

RECURSIVE ScanLines(_, _, _)
ScanLines(st, lines, random) ==
    IF lines = <<>> THEN st
    ELSE ScanLines(ParseLine(st, Head(lines), random), Tail(lines), random)

\* parseWeights: the map is reset first, then filled line by line; an error
\* returns at once with the map as filled so far
parseWeights(lines, random) ==
    ScanLines([domains |-> EmptyMap, curd |-> NoKey, err |-> NoErr], lines, random)

\* the digest and the parse of every modelled content, computed once
DigestOf == [f \in FileIds |-> Md5Sum(Files[f])]
ParseOf == [f \in FileIds |-> [random \in BOOLEAN |-> parseWeights(Files[f], random)]]

\* readWeightFile that does not store the digest of the content it parses
readWeightFile_NoStore(f, sum, doms, random) ==
    IF f = NoFile THEN [changed |-> FALSE, err |-> ErrOpen, md5sum |-> sum, domains |-> doms]
    ELSE IF DigestOf[f] = sum
    THEN [changed |-> FALSE, err |-> NoErr, md5sum |-> sum, domains |-> doms]
    ELSE [changed |-> TRUE, err |-> ParseOf[f][random].err, md5sum |-> sum,
          domains |-> ParseOf[f][random].domains]

\* readWeightFile whose parse fills the map in place instead of a fresh one
readWeightFile_KeepMap(f, sum, doms, random) ==
    IF f = NoFile THEN [changed |-> FALSE, err |-> ErrOpen, md5sum |-> sum, domains |-> doms]
    ELSE IF DigestOf[f] = sum
    THEN [changed |-> FALSE, err |-> NoErr, md5sum |-> sum, domains |-> doms]
    ELSE LET p == ScanLines([domains |-> doms, curd |-> NoKey, err |-> NoErr],
                            Files[f], random)
         IN  [changed |-> TRUE, err |-> p.err, md5sum |-> DigestOf[f],
              domains |-> p.domains]

\* readWeightFile whose parse keeps the domains of the old map that the new content
\* does not name
readWeightFile_Merge(f, sum, doms, random) ==
    IF f = NoFile THEN [changed |-> FALSE, err |-> ErrOpen, md5sum |-> sum, domains |-> doms]
    ELSE IF DigestOf[f] = sum
    THEN [changed |-> FALSE, err |-> NoErr, md5sum |-> sum, domains |-> doms]
    ELSE LET p == ParseOf[f][random]
         IN  [changed |-> TRUE, err |-> p.err, md5sum |-> DigestOf[f],
              domains |-> [k \in (DOMAIN p.domains) \cup (DOMAIN doms) |->
                              IF k \in DOMAIN p.domains THEN p.domains[k] ELSE doms[k]]]

\* readWeightFile that forgets the table and the digest when the file cannot be opened
readWeightFile_OpenResets(f, sum, doms, random) ==
    IF f = NoFile
    THEN [changed |-> FALSE, err |-> ErrOpen, md5sum |-> ZeroDigest, domains |-> EmptyMap]
    ELSE IF DigestOf[f] = sum
    THEN [changed |-> FALSE, err |-> NoErr, md5sum |-> sum, domains |-> doms]
    ELSE [changed |-> TRUE, err |-> ParseOf[f][random].err, md5sum |-> DigestOf[f],
          domains |-> ParseOf[f][random].domains]

\* readWeightFile on the file f, with the stored digest:
\* [changed, err, md5sum, domains]
readWeightFile(f, sum, doms, random) ==
    IF f = NoFile THEN [changed |-> FALSE, err |-> ErrOpen, md5sum |-> sum, domains |-> doms]
    ELSE IF DigestOf[f] = sum
    THEN [changed |-> FALSE, err |-> NoErr, md5sum |-> sum, domains |-> doms]
    ELSE [changed |-> TRUE, err |-> ParseOf[f][random].err, md5sum |-> DigestOf[f],
          domains |-> ParseOf[f][random].domains]

\* ------------------------------------------------------------------ selectors

\* the width of determininsticWRR.count (uint8)
CountMod == 256

\* determininsticWRR.nextTopIP that moves to the next entry without resetting count
DetNextTopIP_NoReset(d) ==
    LET dw == d.topIPupdater
        topIndex == dw.index
        count == (dw.count + 1) % CountMod
    IN  [d EXCEPT !.topIP = d.weights[topIndex + 1].address,
                  !.topIPupdater =
                      IF count = d.weights[topIndex + 1].value
                      THEN [dw EXCEPT !.index = IF dw.index + 1 < Len(d.weights)
                                                THEN dw.index + 1 ELSE 0,
                                      !.count = count]
                      ELSE [dw EXCEPT !.count = count]]

\* determininsticWRR.nextTopIP; index is 0-based as in the code
DetNextTopIP(d) ==
    LET dw == d.topIPupdater
        topIndex == dw.index
        count == (dw.count + 1) % CountMod
    IN  [d EXCEPT !.topIP = d.weights[topIndex + 1].address,
                  !.topIPupdater =
                      IF count = d.weights[topIndex + 1].value
                      THEN [dw EXCEPT !.index = IF dw.index + 1 < Len(d.weights)
                                                THEN dw.index + 1 ELSE 0,
                                      !.count = 0]
                      ELSE [dw EXCEPT !.count = count]]

\* the partial sum of the first k weight values
RECURSIVE PSum(_, _)
PSum(ws, k) == IF k = 0 THEN 0 ELSE PSum(ws, k - 1) + ws[k].value

\* randomizedWRR.nextTopIP that breaks its loop when v <= psum
RandNextTopIP_OffByOne(d, v) ==
    LET hits == {k \in 1..Len(d.weights) : v <= PSum(d.weights, k)}
        k == IF hits = {} THEN Len(d.weights)
             ELSE CHOOSE i \in hits : \A j \in hits : i <= j
    IN  [d EXCEPT !.topIP = d.weights[k].address]

\* randomizedWRR.nextTopIP with the drawn value v = rn.Intn(wsum): the first entry
\* whose partial sum exceeds v, the last entry when the loop runs to its end
RandNextTopIP(d, v) ==
    LET hits == {k \in 1..Len(d.weights) : v < PSum(d.weights, k)}
        k == IF hits = {} THEN Len(d.weights)
             ELSE CHOOSE i \in hits : \A j \in hits : i <= j
    IN  [d EXCEPT !.topIP = d.weights[k].address]

\* the values rn.Intn can return for the domain (none: Intn panics on wsum = 0);
\* the deterministic selector draws nothing
Draws(d) ==
    IF d.topIPupdater.kind = "randomizedWRR" THEN 0..(d.topIPupdater.wsum - 1) ELSE {0}

\* nextTopIP of the domain's updater
nextTopIP(d, v) ==
    IF d.topIPupdater.kind = "randomizedWRR" THEN RandNextTopIP(d, v) ELSE DetNextTopIP(d)

\* nextTopIP panics: rand.Intn(0), or weights[index] out of range
NextTopIPPanics(d) ==
    IF d.topIPupdater.kind = "randomizedWRR" THEN d.topIPupdater.wsum = 0
    ELSE d.topIPupdater.index >= Len(d.weights)

\* ------------------------------------------------------------------ reload

Perms(n) == {p \in [1..n -> 1..n] : \A i, j \in 1..n : p[i] = p[j] => i = j}

\* sort.Slice with less(i, j) = value[i] > value[j]: some permutation in which no
\* entry precedes one of greater value; sort.Slice promises no order among equals
SortSlice(ws) ==
    {s \in {[i \in 1..Len(ws) |-> ws[p[i]]] : p \in Perms(Len(ws))} :
        \A i, j \in 1..Len(ws) : i < j => ~(s[j].value > s[i].value)}

\* the loop body of updateWeights up to the call of nextTopIP: the list sorted, and
\* in randomized mode the weights added to the updater's sum
Prepared(d, sorted) ==
    LET d1 == [d EXCEPT !.weights = sorted]
    IN  IF d.topIPupdater.kind = "randomizedWRR"
        THEN [d1 EXCEPT !.topIPupdater.wsum = @ + PSum(sorted, Len(sorted))]
        ELSE d1

\* the domains one loop turn of updateWeights can leave for d (none: it panics)
Refreshed(d) ==
    UNION {{nextTopIP(Prepared(d, s), v) : v \in Draws(Prepared(d, s))} : s \in SortSlice(d.weights)}

RefreshPanics(d) == \E s \in SortSlice(d.weights) : NextTopIPPanics(Prepared(d, s))

\* the maps the loop of updateWeights can leave: every domain after its loop turn
RECURSIVE RefreshedAll(_)
RefreshedAll(doms) ==
    IF DOMAIN doms = {} THEN {doms}
    ELSE LET k == CHOOSE x \in DOMAIN doms : TRUE
             rest == RefreshedAll([x \in (DOMAIN doms) \ {k} |-> doms[x]])
         IN  {MapPut(m, k, d) : m \in rest, d \in Refreshed(doms[k])}

\* ------------------------------------------------------------------ reorder

\* the record types of the modelled answers; TXT and SRV fall to the default case
RRTypes == {"CNAME", "A", "AAAA", "MX", "TXT", "SRV"}
AddressTypes == {"A", "AAAA"}
RestTypes == RRTypes \ ({"CNAME", "MX"} \cup AddressTypes)

\* the records of the given types, in their input order
Bucket(in, types) == LET Test(r) == r.rrtype \in types IN SelectSeq(in, Test)

\* the 0-based index of the first address record equal to the expected top IP, or -1
FindTop(address, expTopIP) ==
    LET hits == {i \in 1..Len(address) : IPEqual(address[i].a, expTopIP)}
    IN  IF hits = {} THEN -1 ELSE (CHOOSE i \in hits : \A j \in hits : i <= j) - 1

\* the exchange that copies one way only
Swap_Overwrite(s, i, j) == [s EXCEPT ![i] = s[j]]

\* address[0], address[itop] = address[itop], address[0]
Swap(s, i, j) == [s EXCEPT ![i] = s[j], ![j] = s[i]]

\* setTopRecord that moves to the next expected top IP before it looks for the
\* present one in the answer
setTopRecord_AdvanceFirst(doms, qname, address, v) ==
    IF qname \notin DOMAIN doms \/ Len(doms[qname].weights) = 0
    THEN [ok |-> FALSE, address |-> address, domains |-> doms]
    ELSE LET curd == doms[qname]
             itop == FindTop(address, curd.topIP)
             next == [doms EXCEPT ![qname] = nextTopIP(curd, v)]
         IN  IF itop = -1 THEN [ok |-> FALSE, address |-> address, domains |-> next]
             ELSE [ok |-> TRUE,
                   address |-> IF itop /= 0 THEN Swap(address, 1, itop + 1) ELSE address,
                   domains |-> next]

\* setTopRecord that leaves the address records in their order
setTopRecord_NoSwap(doms, qname, address, v) ==
    IF qname \notin DOMAIN doms \/ Len(doms[qname].weights) = 0
    THEN [ok |-> FALSE, address |-> address, domains |-> doms]
    ELSE LET curd == doms[qname]
             itop == FindTop(address, curd.topIP)
         IN  IF itop = -1 THEN [ok |-> FALSE, address |-> address, domains |-> doms]
             ELSE [ok |-> TRUE,
                   address |-> address,
                   domains |-> [doms EXCEPT ![qname] = nextTopIP(curd, v)]]

\* setTopRecord whose match moves every domain of the table to its next expected
\* top IP
setTopRecord_AdvanceAll(doms, qname, address, v) ==
    IF qname \notin DOMAIN doms \/ Len(doms[qname].weights) = 0
    THEN [ok |-> FALSE, address |-> address, domains |-> doms]
    ELSE LET curd == doms[qname]
             itop == FindTop(address, curd.topIP)
         IN  IF itop = -1 THEN [ok |-> FALSE, address |-> address, domains |-> doms]
             ELSE [ok |-> TRUE,
                   address |-> IF itop /= 0 THEN Swap(address, 1, itop + 1) ELSE address,
                   domains |-> [k \in DOMAIN doms |->
                                   IF Len(doms[k].weights) > 0 /\ ~NextTopIPPanics(doms[k])
                                   THEN nextTopIP(doms[k], v) ELSE doms[k]]]

\* setTopRecord under the lock, with v the value the generator would draw:
\* [ok, address, domains]
setTopRecord(doms, qname, address, v) ==
    IF qname \notin DOMAIN doms \/ Len(doms[qname].weights) = 0
    THEN [ok |-> FALSE, address |-> address, domains |-> doms]
    ELSE LET curd == doms[qname]
             itop == FindTop(address, curd.topIP)
         IN  IF itop = -1 THEN [ok |-> FALSE, address |-> address, domains |-> doms]
             ELSE [ok |-> TRUE,
                   address |-> IF itop /= 0 THEN Swap(address, 1, itop + 1) ELSE address,
                   domains |-> [doms EXCEPT ![qname] = nextTopIP(curd, v)]]

\* setTopRecord finds the expected top IP in the answer and nextTopIP panics
setTopRecordPanics(doms, qname, address) ==
    /\ qname \in DOMAIN doms
    /\ Len(doms[qname].weights) > 0
    /\ FindTop(address, doms[qname].topIP) /= -1
    /\ NextTopIPPanics(doms[qname])

\* what weightedRoundRobin does with the table: setTopRecord is not called for an
\* answer without address records
TopOf(doms, qname, in, v) ==
    IF Len(Bucket(in, AddressTypes)) = 0
    THEN [ok |-> FALSE, address |-> <<>>, domains |-> doms]
    ELSE setTopRecord(doms, qname, Bucket(in, AddressTypes), v)

\* weightedRoundRobin appending the address records before the other records
Assemble_AddressFirst(in, top) ==
    IF ~top.ok THEN in
    ELSE Bucket(in, {"CNAME"}) \o top.address \o Bucket(in, RestTypes) \o Bucket(in, {"MX"})

\* weightedRoundRobin without its early return: the list is always put together
\* from the buckets
Assemble_Always(in, top) ==
    Bucket(in, {"CNAME"}) \o Bucket(in, RestTypes)
        \o (IF top.ok THEN top.address ELSE Bucket(in, AddressTypes))
        \o Bucket(in, {"MX"})

\* the list weightedRoundRobin returns, given the result top of setTopRecord
Assemble(in, top) ==
    IF ~top.ok THEN in
    ELSE Bucket(in, {"CNAME"}) \o Bucket(in, RestTypes) \o top.address \o Bucket(in, {"MX"})

\* ------------------------------------------------------------------ queries

RR(t, n) == [rrtype |-> t, a |-> NilIP, rdata |-> n]
AddrRR(t, tok) == [rrtype |-> t, a |-> ParseIP(tok), rdata |-> 0]
ip16 == <<"1", ".", "1", ".", "1", ".", "6">>

\* all four classes, already in the order of the output
AnsSorted == <<RR("CNAME", 1), AddrRR("A", ip15), AddrRR("A", ip14), AddrRR("A", ip16),
               AddrRR("AAAA", ip61), AddrRR("AAAA", ip62), RR("MX", 1)>>
\* an address no weight file names, before an MX and a CNAME record
AnsNoMatch == <<AddrRR("A", ip16), RR("MX", 1), RR("CNAME", 1)>>
\* all four classes mixed
AnsMixed == <<RR("MX", 1), AddrRR("A", ip15), RR("TXT", 1), AddrRR("A", ip14), RR("MX", 2),
              RR("CNAME", 1), AddrRR("AAAA", ip62), RR("SRV", 2), AddrRR("AAAA", ip61),
              RR("CNAME", 2)>>
\* no address record
AnsNoAddress == <<RR("MX", 1), RR("TXT", 1), RR("CNAME", 1)>>
\* an A record without rdata (its address has length 0) after a good one
AnsNilAddress == <<AddrRR("A", ip15), [rrtype |-> "A", a |-> NilIP, rdata |-> 0]>>

Answers == {AnsSorted, AnsNoMatch, AnsMixed, AnsNoAddress, AnsNilAddress}

\* the queried names: two the files name, one without its dot, which is no key
QNames == {w1dot, w2dot, w1}

\* ------------------------------------------------------------------ state

\* the reload period parse() sets when the block has no reload option, in seconds
DefaultReload == 30
\* the reload periods of the modelled configurations; 0 is "reload 0s"
Reloads == {0, DefaultReload}

VARIABLES
    file,       \* the weight file now on disk: an index of Files, or NoFile
    isRandom,   \* weightedRR.isRandom, fixed at construction
    reload,     \* weightedRR.reload, fixed at construction
    phase,      \* how far setup and the server start have got
    reloader,   \* the goroutine of periodicWeightUpdate: "none", "running" (at its
                \* select), "called" (at the Lock of updateWeights), "reading" (in
                \* updateWeights, the lock taken) or "exited"
    md5sum,     \* weightedRR.md5sum
    domains,    \* weightedRR.domains
    rn,         \* weightedRR.rn: the number of draws made, modulo RnPeriod
    crashed,    \* the process has panicked
    matched,    \* per domain, the matched reorders since the table was installed
    lastLoad,   \* the content the last reload read, how its last parse ended, and
                \* the content of the last reload that succeeded
    caller,     \* who called updateWeights, if the last step was a call of it
    lastOp,     \* the last step, and what it was given and returned if it was a call
    mutex,      \* weightedRR.mutex: "free", or who holds it
    stopReload, \* the channel given to periodicWeightUpdate is closed
    ticks,      \* ticker.C holds a tick
    pending     \* per caller, the name of its weightedRoundRobin call that is at the
                \* Lock of setTopRecord, or NoKey

vars == <<file, isRandom, reload, phase, reloader, md5sum, domains, rn, crashed,
          matched, lastLoad, caller, lastOp, mutex, stopReload, ticks, pending>>

\* the lock, the two channels of the goroutine and the calls in flight
sync == <<mutex, stopReload, ticks, pending>>

\* the number of callers of weightedRoundRobin that can be in flight together
MaxCallers == 2
Callers == 1..MaxCallers

\* exp is the expected top IP the call found for its domain, v the value drawn for
\* the next one; k is, for a reorder, the number of the matched reorder among those
\* of its domain, and for a reload the matched reorders the table in place had served
NoOp ==
    [op |-> "none", err |-> NoErr, changed |-> FALSE, qname |-> NoKey,
     in |-> <<>>, out |-> <<>>, ok |-> FALSE, exp |-> NilIP, v |-> 0, k |-> 0]

\* again: the table in place replaced one that a successful reload had installed
NoLoad == [file |-> NoFile, err |-> NoErr, again |-> FALSE, good |-> NoFile]

\* parse() has built the weightedRR; setup has not yet gone further
Init ==
    /\ file \in FileIds \cup {NoFile}
    /\ isRandom \in BOOLEAN
    /\ reload \in Reloads
    /\ phase = "setup"
    /\ reloader = "none"
    /\ md5sum = ZeroDigest
    /\ domains = EmptyMap
    /\ rn = 0
    /\ crashed = FALSE
    /\ matched = EmptyMap
    /\ lastLoad = NoLoad
    /\ caller = "none"
    /\ lastOp = NoOp
    /\ mutex = "free"
    /\ stopReload = FALSE
    /\ ticks = FALSE
    /\ pending = [c \in Callers |-> NoKey]

\* the process runs: it has not panicked and its start has not failed
Alive == ~crashed /\ phase /= "failed"

\* the weight file is written, replaced or removed
FileChange ==
    /\ Alive
    /\ \E f \in Rewrites \cup {NoFile} : f /= file /\ file' = f
    /\ caller' = "none"
    /\ lastOp' = [NoOp EXCEPT !.op = "FileChange"]
    /\ UNCHANGED <<isRandom, reload, phase, reloader, md5sum, domains, rn, crashed,
                   matched, lastLoad>>
    /\ UNCHANGED sync

\* periodicWeightUpdate that starts its goroutine whatever the period
Reloader_Always(period) == "running"

\* periodicWeightUpdate that never starts its goroutine
Reloader_Never(period) == "none"

\* what periodicWeightUpdate leaves behind: no goroutine for a period of zero
Reloader(period) == IF period = 0 THEN "none" ELSE "running"

\* setup calls periodicWeightUpdate and registers the startup load
periodicWeightUpdate ==
    /\ Alive
    /\ phase = "setup"
    /\ reloader' = Reloader(reload)
    /\ phase' = "startup"
    /\ caller' = "none"
    /\ lastOp' = [NoOp EXCEPT !.op = "periodicWeightUpdate"]
    /\ UNCHANGED <<file, isRandom, reload, md5sum, domains, rn, crashed, matched, lastLoad>>
    /\ UNCHANGED sync

Zeroes(m) == [k \in DOMAIN m |-> 0]

RECURSIVE Total(_)
Total(m) ==
    IF DOMAIN m = {} THEN 0
    ELSE LET k == CHOOSE x \in DOMAIN m : TRUE
         IN  m[k] + Total([x \in (DOMAIN m) \ {k} |-> m[x]])

\* updateWeights, from Lock to Unlock, called by the startup load or by the goroutine
updateWeights(by) ==
    /\ caller' = by
    /\ LET r == readWeightFile(file, md5sum, domains, isRandom)
           loaded == r.err = NoErr /\ r.changed
           panics == loaded /\ \E k \in DOMAIN r.domains : RefreshPanics(r.domains[k])
       IN  /\ lastOp' = [NoOp EXCEPT !.op = "updateWeights",
                                     !.changed = r.changed, !.k = Total(matched),
                                     !.err = IF panics THEN Panic ELSE r.err]
           /\ md5sum' = r.md5sum
           /\ lastLoad' = IF file = NoFile THEN lastLoad
                          ELSE IF ~r.changed THEN [lastLoad EXCEPT !.file = file]
                          ELSE [file |-> file, err |-> r.err,
                                again |-> /\ r.err = NoErr
                                          /\ lastLoad.err = NoErr
                                          /\ lastLoad.file /= NoFile,
                                good |-> IF loaded /\ ~panics THEN file
                                         ELSE lastLoad.good]
           /\ matched' = IF r.changed THEN Zeroes(r.domains) ELSE matched
           /\ crashed' = panics
           /\ IF ~loaded \/ panics
              THEN /\ domains' = r.domains
                   /\ UNCHANGED rn
              ELSE /\ domains' \in RefreshedAll(r.domains)
                   /\ rn' = IF isRandom THEN (rn + Cardinality(DOMAIN r.domains)) % RnPeriod
                            ELSE rn
    /\ UNCHANGED <<file, isRandom, reload>>

\* the startup load that fails on every error
StartupOutcome_Strict(err, period) == IF err /= NoErr THEN "failed" ELSE "serving"

\* what the function given to OnStartup makes of the error of updateWeights: an open
\* error is a warning when the file is read again later, any other error is returned
StartupOutcome(err, period) ==
    IF err = ErrOpen /\ period /= 0 THEN "serving"
    ELSE IF err /= NoErr THEN "failed"
    ELSE "serving"

\* the function given to c.OnStartup: the startup load
OnStartup ==
    /\ Alive
    /\ phase = "startup"
    /\ updateWeights("OnStartup")
    /\ phase' = IF lastOp'.err = Panic THEN phase ELSE StartupOutcome(lastOp'.err, reload)
    /\ UNCHANGED reloader
    /\ UNCHANGED sync

\* the goroutine of periodicWeightUpdate takes a tick of its ticker
Tick ==
    /\ Alive
    /\ reloader = "running"
    /\ updateWeights("ticker")
    /\ UNCHANGED <<phase, reloader>>
    /\ UNCHANGED sync

\* weightedRoundRobin(qname, in) from the Lock of setTopRecord to its return
Reordered(qname, in) ==
    /\ caller' = "none"
    /\ LET op == [NoOp EXCEPT !.op = "weightedRoundRobin", !.qname = qname, !.in = in,
                              !.exp = IF qname \in DOMAIN domains
                                      THEN domains[qname].topIP ELSE NilIP]
       IN  IF /\ Len(Bucket(in, AddressTypes)) > 0
              /\ setTopRecordPanics(domains, qname, Bucket(in, AddressTypes))
           THEN /\ crashed' = TRUE
                /\ lastOp' = [op EXCEPT !.err = Panic]
                /\ UNCHANGED <<domains, rn, matched>>
           ELSE /\ \E v \in (IF TopOf(domains, qname, in, 0).ok
                             THEN Draws(domains[qname]) ELSE {0}) :
                      LET top == TopOf(domains, qname, in, v)
                      IN  /\ domains' = top.domains
                          /\ rn' = IF top.ok /\ isRandom THEN (rn + 1) % RnPeriod ELSE rn
                          /\ matched' = IF top.ok /\ ~isRandom
                                        THEN [matched EXCEPT ![qname] = @ + 1] ELSE matched
                          /\ lastOp' = [op EXCEPT !.out = Assemble(in, top),
                                                  !.ok = top.ok,
                                                  !.v = v,
                                                  !.k = IF top.ok /\ ~isRandom
                                                        THEN matched[qname] + 1 ELSE 0]
                /\ UNCHANGED crashed
    /\ UNCHANGED <<file, isRandom, reload, phase, reloader, md5sum, lastLoad>>

\* weightedRoundRobin(qname, in): one query's answer reordered
weightedRoundRobin(qname, in) ==
    /\ Alive
    /\ phase = "serving"
    /\ qname \in DOMAIN matched => matched[qname] < MaxMatched
    /\ Reordered(qname, in)
    /\ UNCHANGED sync

Next ==
    \/ FileChange
    \/ periodicWeightUpdate
    \/ OnStartup
    \/ Tick
    \/ \E qname \in QNames, in \in Answers : weightedRoundRobin(qname, in)

Spec == Init /\ [][Next]_vars

\* the configurations with a reload period
LiveInit == Init /\ reload /= 0

\* the steps of the server with its queries all bringing the same mixed answer
LiveNext ==
    \/ FileChange
    \/ periodicWeightUpdate
    \/ OnStartup
    \/ Tick
    \/ \E qname \in QNames : weightedRoundRobin(qname, AnsMixed)

\* the goroutine is scheduled and its ticker keeps firing
LiveSpec == LiveInit /\ [][LiveNext]_vars /\ WF_vars(Tick)

\* ------------------------------------------------------------------ lock steps

\* a step that is neither a reload nor a reorder
Stepped ==
    /\ caller' = "none"
    /\ lastOp' = [NoOp EXCEPT !.op = "step"]
    /\ UNCHANGED <<file, isRandom, reload, md5sum, domains, rn, crashed, matched, lastLoad>>

\* the select that takes the tick whenever there is one
Select_TickFirst(stop, tick) ==
    IF tick THEN {"tick"} ELSE IF stop THEN {"stop"} ELSE {}

\* the cases of the select of the goroutine that can proceed; one of them is chosen
Select(stop, tick) ==
    (IF stop THEN {"stop"} ELSE {}) \cup (IF tick THEN {"tick"} ELSE {})

\* the ticker sends on its channel of capacity one
TickerFires ==
    /\ Alive
    /\ reloader \in {"running", "called", "reading"}
    /\ ~ticks
    /\ ticks' = TRUE
    /\ Stepped
    /\ UNCHANGED <<phase, reloader, mutex, stopReload, pending>>

\* case <-stopReload: return
SelectStop ==
    /\ Alive
    /\ reloader = "running"
    /\ "stop" \in Select(stopReload, ticks)
    /\ reloader' = "exited"
    /\ Stepped
    /\ UNCHANGED <<phase, mutex, stopReload, ticks, pending>>

\* case <-ticker.C: updateWeights is called
SelectTick ==
    /\ Alive
    /\ reloader = "running"
    /\ "tick" \in Select(stopReload, ticks)
    /\ ticks' = FALSE
    /\ reloader' = "called"
    /\ Stepped
    /\ UNCHANGED <<phase, mutex, stopReload, pending>>

\* w.mutex.Lock() of the updateWeights the goroutine called
ReloadLock ==
    /\ Alive
    /\ reloader = "called"
    /\ mutex = "free"
    /\ mutex' = "ticker"
    /\ reloader' = "reading"
    /\ Stepped
    /\ UNCHANGED <<phase, stopReload, ticks, pending>>

\* the rest of that updateWeights: readWeightFile, the sort and the first top IPs,
\* then the deferred Unlock
ReloadUnlock ==
    /\ Alive
    /\ reloader = "reading"
    /\ updateWeights("ticker")
    /\ mutex' = "free"
    /\ reloader' = "running"
    /\ UNCHANGED <<phase, stopReload, ticks, pending>>

\* w.mutex.Lock() of the updateWeights of the startup load
StartupLock ==
    /\ Alive
    /\ phase = "startup"
    /\ mutex = "free"
    /\ mutex' = "OnStartup"
    /\ Stepped
    /\ UNCHANGED <<phase, reloader, stopReload, ticks, pending>>

\* the rest of the startup load, and what the function given to OnStartup returns
StartupUnlock ==
    /\ Alive
    /\ mutex = "OnStartup"
    /\ updateWeights("OnStartup")
    /\ mutex' = "free"
    /\ phase' = IF lastOp'.err = Panic THEN phase ELSE StartupOutcome(lastOp'.err, reload)
    /\ UNCHANGED <<reloader, stopReload, ticks, pending>>

\* the function given to c.OnShutdown: close(stopReloadChan)
OnShutdown ==
    /\ Alive
    /\ phase = "serving"
    /\ ~stopReload
    /\ stopReload' = TRUE
    /\ Stepped
    /\ UNCHANGED <<phase, reloader, mutex, ticks, pending>>

\* the answer of the queries in flight
InFlightAnswer == AnsMixed

\* the calls in flight for a name
InFlight(qname) == Cardinality({c \in Callers : pending[c] = qname})

\* a caller calls weightedRoundRobin, which fills its four slices and gets to the
\* Lock of setTopRecord
ReorderCall(c, qname) ==
    /\ Alive
    /\ phase = "serving"
    /\ pending[c] = NoKey
    /\ qname \in DOMAIN matched => matched[qname] + InFlight(qname) < MaxMatched
    /\ pending' = [pending EXCEPT ![c] = qname]
    /\ Stepped
    /\ UNCHANGED <<phase, reloader, mutex, stopReload, ticks>>

\* the call of a caller takes the lock, and setTopRecord and weightedRoundRobin return
ReorderReturn(c) ==
    /\ Alive
    /\ pending[c] /= NoKey
    /\ mutex = "free"
    /\ Reordered(pending[c], InFlightAnswer)
    /\ pending' = [pending EXCEPT ![c] = NoKey]
    /\ UNCHANGED <<mutex, stopReload, ticks>>

\* the configurations with a reload period and one of the files that are written later
LockInit == LiveInit /\ file \in Rewrites \cup {NoFile}

\* the steps of the server with the lock, the channels and the calls in flight
LockNext ==
    \/ FileChange
    \/ periodicWeightUpdate
    \/ StartupLock
    \/ StartupUnlock
    \/ TickerFires
    \/ SelectStop
    \/ SelectTick
    \/ ReloadLock
    \/ ReloadUnlock
    \/ OnShutdown
    \/ \E c \in Callers : ReorderCall(c, w1dot)
    \/ \E c \in Callers : ReorderReturn(c)

LockSpec == LockInit /\ [][LockNext]_vars

\* deterministic mode, the weight file left as it is found
LockLiveInit == LockInit /\ ~isRandom

LockLiveNext ==
    \/ periodicWeightUpdate
    \/ StartupLock
    \/ StartupUnlock
    \/ TickerFires
    \/ SelectStop
    \/ SelectTick
    \/ ReloadLock
    \/ ReloadUnlock
    \/ OnShutdown
    \/ \E c \in Callers : ReorderCall(c, w1dot)
    \/ \E c \in Callers : ReorderReturn(c)

\* the goroutine and the startup load are scheduled, and their Lock returns when the
\* lock is free
Scheduled == WF_vars(StartupUnlock \/ ReloadLock \/ ReloadUnlock)

\* the select, which chooses among its ready cases at random, does not leave the
\* closed channel out for ever
SelectFair == SF_vars(SelectStop)

\* the Lock of every call in flight returns when the lock stays free
CallersFair == \A c \in Callers : WF_vars(ReorderReturn(c))

LockLiveSpec ==
    LockLiveInit /\ [][LockLiveNext]_vars /\ Scheduled /\ SelectFair /\ CallersFair

\* ------------------------------------------------------------------ claims

\* the last step is a reorder that has returned
IsReorder == lastOp.op = "weightedRoundRobin" /\ lastOp.err = NoErr
IsReload == lastOp.op = "updateWeights"

\* the address of the first address record of a list
TopAddress(rrs) == Bucket(rrs, AddressTypes)[1].a

\* a_1 w_1 times, then a_2 w_2 times, ..., then a_n w_n times
RECURSIVE Cycle(_)
Cycle(ws) ==
    IF ws = <<>> THEN <<>>
    ELSE [i \in 1..Head(ws).value |-> Head(ws).address] \o Cycle(Tail(ws))

\* the k-th element, k >= 1, of the cycle repeated for ever
CycleAt(ws, k) == Cycle(ws)[((k - 1) % Len(Cycle(ws))) + 1]

WeightsInRange(ws) == \A i \in 1..Len(ws) : ws[i].value \in 1..MaxUint8

\* C1: in deterministic mode, for a table a successful reload installed, with all
\* weights of the domain in [1,255], the k-th matched reorder of a domain since its
\* table was loaded puts on top of the address records the k-th element of the
\* sequence a_1 x w_1, ..., a_n x w_n repeated for ever.
C1_DeterministicSequence ==
    (/\ IsReorder /\ lastOp.ok /\ ~isRandom
     /\ lastLoad.err = NoErr
     /\ WeightsInRange(domains[lastOp.qname].weights))
        => TopAddress(lastOp.out) = CycleAt(domains[lastOp.qname].weights, lastOp.k)

\* a matched reorder after the cycle of a two-entry domain has started again
C1_Witness ==
    /\ IsReorder /\ lastOp.ok /\ ~isRandom
    /\ lastLoad.err = NoErr
    /\ Len(domains[lastOp.qname].weights) = 2
    /\ WeightsInRange(domains[lastOp.qname].weights)
    /\ lastOp.k > Len(Cycle(domains[lastOp.qname].weights))

\* the place of a record's class in the order alias, other, address, mail exchange
ClassRank(r) ==
    CASE r.rrtype = "CNAME" -> 1
      [] r.rrtype \in AddressTypes -> 3
      [] r.rrtype = "MX" -> 4
      [] OTHER -> 2

ClassOrdered(rrs) == \A i, j \in 1..Len(rrs) : i < j => ClassRank(rrs[i]) <= ClassRank(rrs[j])

NoMatch(doms, qname, in) ==
    /\ qname \in DOMAIN doms
    /\ Len(doms[qname].weights) > 0
    /\ \A i \in 1..Len(in) :
          in[i].rrtype \in AddressTypes => ~IPEqual(in[i].a, doms[qname].topIP)

NothingToDo(doms, qname, in) ==
    \/ \A i \in 1..Len(in) : in[i].rrtype \notin AddressTypes
    \/ qname \notin DOMAIN doms
    \/ Len(doms[qname].weights) = 0

ParseErrors == {ErrDomainName, ErrIP, ErrWeight, ErrMissingDomain, ErrLine}

\* C5: an updateWeights call that returns a parse error leaves the domain map
\* exactly as it was before the call.
C5_ParseErrorKeepsTable ==
    [][(lastOp'.op = "updateWeights" /\ lastOp'.err \in ParseErrors)
          => domains' = domains]_vars

\* C6: a reload that reads the content the previous reload read replaces nothing:
\* the domain map with its weight lists, selector states and expected top IPs, the
\* digest and the generator are unchanged, and the call returns no error.
C6_SameContentNoChange ==
    [][(/\ lastOp'.op = "updateWeights"
        /\ file /= NoFile /\ lastLoad.file /= NoFile
        /\ Files[file] = Files[lastLoad.file])
          => (/\ UNCHANGED <<domains, rn, md5sum, crashed>>
              /\ lastOp'.err = NoErr /\ ~lastOp'.changed)]_vars

\* a reload of unchanged content after matched reorders moved a selector on
C6_Witness ==
    /\ IsReload /\ ~lastOp.changed /\ lastOp.err = NoErr
    /\ lastLoad.file /= NoFile /\ lastLoad.err = NoErr
    /\ \E k \in DOMAIN matched : matched[k] > 0 /\ domains[k].topIPupdater.count > 0

\* C7 as stated: every weight item of the table has a value in [1,255].
C7_WeightsInRange ==
    \A k \in DOMAIN domains : WeightsInRange(domains[k].weights)

\* the lines of a content that are headers, and those that are IP/weight entries
IsComment(line) == Len(line) > 0 /\ line[1][1] = "#"
IsHeader(line) == Len(line) = 1 /\ ~IsComment(line)
IsEntry(line) == Len(line) = 2 /\ ~IsComment(line)

\* the content has a header that no entry follows before the next header or the end
HasEmptyDomain(lines) ==
    \E i \in 1..Len(lines) :
        /\ IsHeader(lines[i])
        /\ \A j \in 1..Len(lines) :
              (j /= i /\ IsHeader(lines[j])) => lines[j][1] /= lines[i][1]
        /\ \A j \in (i + 1)..Len(lines) :
              IsEntry(lines[j]) => \E h \in (i + 1)..j : IsHeader(lines[h])

\* C8 as stated: a reload of a valid content with a header followed by no entry ends
\* without error or crash and leaves a domain with an empty weight list in the map.
C8_EmptyDomainLoads ==
    (/\ IsReload /\ lastOp.changed
     /\ ParseOf[lastLoad.file][isRandom].err = NoErr
     /\ HasEmptyDomain(Files[lastLoad.file]))
        => (/\ ~crashed /\ lastOp.err = NoErr
            /\ \E k \in DOMAIN domains : Len(domains[k].weights) = 0)

\* the key of the header in force at line i (the nearest header before it)
KeyAt(lines, i) ==
    LET h == CHOOSE j \in 1..(i - 1) :
                 IsHeader(lines[j]) /\ \A m \in (j + 1)..(i - 1) : ~IsHeader(lines[m])
        name == lines[h][1]
    IN  IF name[Len(name)] = "." THEN name ELSE name \o <<".">>

\* the entries a content gives for a key, in the order of the file
EntriesOf(lines, key) ==
    LET Mine(i) == IsEntry(lines[i]) /\ KeyAt(lines, i) = key
        at == SelectSeq([i \in 1..Len(lines) |-> i], Mine)
    IN  [n \in 1..Len(at) |-> [address |-> ParseIP(lines[at[n]][1]),
                               value |-> NumVal(lines[at[n]][2], 10)]]

KeysOf(lines) ==
    {KeyAt(lines, i + 1) : i \in {j \in 1..Len(lines) : IsHeader(lines[j])}}

\* ws is es in non-increasing order of value
SortedFrom(es, ws, stable) ==
    \E p \in Perms(Len(es)) :
        /\ ws = [i \in 1..Len(es) |-> es[p[i]]]
        /\ \A i, j \in 1..Len(es) :
              i < j => /\ ws[i].value >= ws[j].value
                       /\ (stable /\ ws[i].value = ws[j].value) => p[i] < p[j]

\* C9 as stated: after a successful content-changing reload every entry of the file
\* is under the key of its header with the dot, and every weight list is its entries
\* in non-increasing order of weight, equal weights in the order of the file.
C9_GroupedAndStablySorted ==
    (IsReload /\ lastOp.changed /\ lastOp.err = NoErr)
        => /\ DOMAIN domains = KeysOf(Files[lastLoad.file])
           /\ \A k \in DOMAIN domains :
                  SortedFrom(EntriesOf(Files[lastLoad.file], k), domains[k].weights, TRUE)

RECURSIVE SumOfValues(_)
SumOfValues(ws) == IF ws = <<>> THEN 0 ELSE Head(ws).value + SumOfValues(Tail(ws))

\* C10: in randomized mode, while the table in place is one a successful reload
\* installed, every domain's stored weight sum is the sum of the values of its list.
C10_WeightSum ==
    (isRandom /\ lastLoad.err = NoErr /\ ~crashed)
        => \A k \in DOMAIN domains :
               domains[k].topIPupdater.wsum = SumOfValues(domains[k].weights)

\* a second successful reload in a row has installed a table of two domains
C10_Witness ==
    /\ isRandom /\ IsReload /\ lastOp.changed /\ lastOp.err = NoErr
    /\ lastLoad.again
    /\ Cardinality(DOMAIN domains) = 2
    /\ \A k \in DOMAIN domains : domains[k].topIPupdater.wsum > 0

\* the smallest k with w_1 + ... + w_k > v
FirstOver(ws, v) ==
    CHOOSE k \in 1..Len(ws) :
        /\ SumOfValues(SubSeq(ws, 1, k)) > v
        /\ \A j \in 1..(k - 1) : SumOfValues(SubSeq(ws, 1, j)) <= v

\* C11: in randomized mode a matched reorder draws a value v in [0,S), S the sum of
\* the domain's weights, and leaves as expected top IP the address a_k with the
\* smallest k such that w_1 + ... + w_k > v; and for a table a successful reload
\* installed, each value of [0,S) can be drawn and exactly w_k of them select entry k.
C11_RandomSelection ==
    /\ (IsReorder /\ lastOp.ok /\ isRandom)
          => LET ws == domains[lastOp.qname].weights
             IN  /\ lastOp.v \in 0..(SumOfValues(ws) - 1)
                 /\ domains[lastOp.qname].topIP = ws[FirstOver(ws, lastOp.v)].address
    /\ (isRandom /\ lastLoad.err = NoErr /\ ~crashed)
          => \A q \in DOMAIN domains :
                 LET ws == domains[q].weights
                     S == SumOfValues(ws)
                 IN  /\ Draws(domains[q]) = 0..(S - 1)
                     /\ \A k \in 1..Len(ws) :
                            Cardinality({v \in 0..(S - 1) :
                                nextTopIP(domains[q], v).topIP = ws[k].address}) = ws[k].value

\* a matched reorder whose draw selects the second entry of a list of unequal weights
C11_Witness ==
    /\ IsReorder /\ lastOp.ok /\ isRandom
    /\ Len(domains[lastOp.qname].weights) = 2
    /\ domains[lastOp.qname].weights[1].value > domains[lastOp.qname].weights[2].value
    /\ lastOp.v = domains[lastOp.qname].weights[1].value
    /\ domains[lastOp.qname].topIP = domains[lastOp.qname].weights[2].address

\* the selector state of a new domain after the one call of nextTopIP the reload makes
FirstSelectorState(d) ==
    IF d.topIPupdater.kind = "randomizedWRR"
    THEN d.topIPupdater = [kind |-> "randomizedWRR", wsum |-> SumOfValues(d.weights)]
    ELSE /\ d.topIP = d.weights[1].address
         /\ d.topIPupdater =
                IF d.weights[1].value /= 1
                THEN [kind |-> "determininsticWRR", index |-> 0, count |-> 1]
                ELSE [kind |-> "determininsticWRR",
                      index |-> IF Len(d.weights) > 1 THEN 1 ELSE 0, count |-> 0]

\* C12: after a successful content-changing reload the keys of the map are exactly
\* the domains of the content read and every domain is in the selector state of a new
\* domain, whatever the table in place before had served; and in deterministic mode
\* the first matched reorder of a domain after the reload puts the first entry on top.
C12_ReloadReplaces ==
    /\ (IsReload /\ lastOp.changed /\ lastOp.err = NoErr)
          => /\ DOMAIN domains = KeysOf(Files[lastLoad.file])
             /\ \A q \in DOMAIN domains : FirstSelectorState(domains[q])
    /\ (IsReorder /\ lastOp.ok /\ ~isRandom /\ lastLoad.err = NoErr /\ lastOp.k = 1)
          => TopAddress(lastOp.out) = domains[lastOp.qname].weights[1].address

\* a reload in deterministic mode that replaced a table which had served matched
\* reorders, by one of fewer domains
C12_Witness ==
    /\ IsReload /\ lastOp.changed /\ lastOp.err = NoErr
    /\ ~isRandom
    /\ lastLoad.again
    /\ lastOp.k > 1
    /\ Cardinality(DOMAIN domains) = 1
    /\ \E q \in DOMAIN domains : Len(domains[q].weights) = 2

\* the keys and the weight lists of the table
Weights(doms) == [q \in DOMAIN doms |-> doms[q].weights]

\* C13: with a reload period of zero no goroutine is ever started, every call of
\* updateWeights is the startup load, and once that load is over no step changes the
\* digest, the content loaded, or the keys and weight lists of the table, whatever
\* becomes of the file.
C13_ZeroPeriodLoadsOnce ==
    [][reload = 0
          => /\ reloader' = "none"
             /\ lastOp'.op = "updateWeights" => caller' = "OnStartup"
             /\ phase /= "startup"
                   => /\ UNCHANGED <<md5sum, lastLoad>>
                      /\ Weights(domains') = Weights(domains)]_vars

\* with a period of zero, a matched reorder served from the table of the startup
\* load after the file got another content
C13_Witness ==
    /\ reload = 0
    /\ phase = "serving"
    /\ IsReorder /\ lastOp.ok
    /\ file /= NoFile
    /\ file /= lastLoad.file
    /\ ParseOf[file][isRandom].err = NoErr

\* the contents the file can be rewritten to that parse without error (in either mode)
ValidRewrites == {f \in Rewrites : ParseOf[f][FALSE].err = NoErr}

\* the entries of every such content by key, in the order of the file
EntriesByKey ==
    [f \in ValidRewrites |-> [q \in KeysOf(Files[f]) |-> EntriesOf(Files[f], q)]]

\* the table is the parse of the content f: its domains, each with its entries in
\* non-increasing order of weight, and in randomized mode with their sum
TableOf(f) ==
    /\ DOMAIN domains = DOMAIN EntriesByKey[f]
    /\ \A q \in DOMAIN domains :
          /\ SortedFrom(EntriesByKey[f][q], domains[q].weights, FALSE)
          /\ isRandom => domains[q].topIPupdater.wsum = SumOfValues(domains[q].weights)

\* the server runs with a reload period, its start over
Reloading == reload /= 0 /\ phase = "serving" /\ ~crashed

\* C14: with a non-zero reload period, while the server runs, a valid content of the
\* weight file that stays in place is eventually the one the table is the parse of,
\* by the ticks of the goroutine alone.
C14_EventuallyReloaded ==
    \A f \in ValidRewrites :
        (file = f /\ Reloading) ~> (TableOf(f) \/ file /= f \/ ~Reloading)

\* a tick has loaded a valid content that replaced the one of an earlier load
C14_Witness ==
    /\ IsReload /\ caller = "ticker"
    /\ lastOp.changed /\ lastOp.err = NoErr
    /\ lastLoad.again
    /\ Reloading
    /\ file \in ValidRewrites
    /\ TableOf(file)

\* C15: a call of updateWeights that finds no file to open returns the open error,
\* which is none of the parse errors, and leaves the domain map with all its selector
\* states, the generator and the stored digest as they were.
C15_OpenFailureKeepsState ==
    [][(lastOp'.op = "updateWeights" /\ file = NoFile)
          => /\ lastOp'.err = ErrOpen
             /\ ErrOpen \notin ParseErrors \cup {NoErr}
             /\ UNCHANGED <<domains, rn, md5sum, crashed>>]_vars

\* an open failure met by a tick while a loaded table that has served matched
\* reorders is in place
C15_Witness ==
    /\ IsReload /\ caller = "ticker"
    /\ lastOp.err = ErrOpen
    /\ file = NoFile
    /\ lastLoad.file /= NoFile /\ lastLoad.err = NoErr
    /\ md5sum = DigestOf[lastLoad.file]
    /\ lastOp.k > 0
    /\ DOMAIN domains /= {}

\* the last step is the startup load, and it has returned
StartupLoadDone == IsReload /\ caller = "OnStartup" /\ lastOp.err /= Panic

\* C16: after the startup load the start has succeeded when the load returned no
\* error, and when it returned the open error with a non-zero reload period; it has
\* failed when the load returned the open error with a reload period of zero, and
\* when it returned a parse error, whatever the reload period.
C16_StartupFatality ==
    StartupLoadDone =>
        /\ phase \in {"serving", "failed"}
        /\ lastOp.err = NoErr => phase = "serving"
        /\ lastOp.err = ErrOpen => (phase = "serving" <=> reload /= 0)
        /\ lastOp.err \in ParseErrors => phase = "failed"

\* a start that succeeded although the startup load could not open the file
C16_Witness ==
    /\ StartupLoadDone
    /\ lastOp.err = ErrOpen
    /\ reload /= 0
    /\ phase = "serving"

\* a line of one token that names a domain, and a line of one token that is an IP
DomainHeader(line) == IsHeader(line) /\ ParseIP(line[1]) = NilIP
IPAlone(line) == IsHeader(line) /\ ParseIP(line[1]) /= NilIP

\* the content has a two-token line that no domain header precedes
HeaderlessEntry(lines) ==
    \E i \in 1..Len(lines) :
        IsEntry(lines[i]) /\ \A j \in 1..(i - 1) : ~DomainHeader(lines[j])

\* the first line that is neither blank nor a comment is a two-token line with a
\* valid IP literal and a weight that fits 8 bits
FirstLineGoodEntry(lines) ==
    \E i \in 1..Len(lines) :
        /\ \A j \in 1..(i - 1) : lines[j] = <<>> \/ IsComment(lines[j])
        /\ IsEntry(lines[i])
        /\ ParseIP(lines[i][1]) /= NilIP
        /\ ParseUint8(lines[i][2]).ok

\* the content read by the last reload that parsed, and the error of its parse
Parsed == lastLoad.file /= NoFile
ParsedLines == Files[lastLoad.file]

\* C17 as stated: the parse of a content with a two-token line that no domain header
\* precedes fails with "Missing domain name".
C17_MissingDomainAlways ==
    (Parsed /\ HeaderlessEntry(ParsedLines)) => lastLoad.err = ErrMissingDomain

\* C17 amended: the parse of a content with a two-token line that no domain header
\* precedes fails; it fails with "Missing domain name" exactly when the first line
\* that is neither blank nor a comment is a two-token line with a valid IP literal
\* and a valid weight, and with the error of an earlier check or line otherwise.
C17_MissingDomainWhenTokensGood ==
    (Parsed /\ HeaderlessEntry(ParsedLines))
        => /\ lastLoad.err \in ParseErrors
           /\ lastLoad.err = ErrMissingDomain <=> FirstLineGoodEntry(ParsedLines)

\* a reload has read a content whose first line after a comment is a good entry
\* without header
C17_Witness ==
    /\ IsReload /\ lastOp.changed
    /\ Parsed
    /\ HeaderlessEntry(ParsedLines)
    /\ FirstLineGoodEntry(ParsedLines)
    /\ IsComment(ParsedLines[1])
    /\ lastOp.err = ErrMissingDomain

\* the content has a line of one token that is an IP literal
HasIPAlone(lines) == \E i \in 1..Len(lines) : IPAlone(lines[i])

\* the lines before the first line of one token that is an IP literal
BeforeIPAlone(lines) ==
    LET i == CHOOSE n \in 1..Len(lines) :
                 IPAlone(lines[n]) /\ \A j \in 1..(n - 1) : ~IPAlone(lines[j])
    IN  SubSeq(lines, 1, i - 1)

\* C18 as stated: the parse of a content with a one-token line that is a valid IP
\* literal fails with "Wrong domain name".
C18_WrongDomainAlways ==
    (Parsed /\ HasIPAlone(ParsedLines)) => lastLoad.err = ErrDomainName

\* C18 amended: the parse of a content with a one-token line that is a valid IP
\* literal fails; it fails with "Wrong domain name" when the lines before the first
\* such line parse, and with the error of the first of them that does not otherwise.
C18_WrongDomainWhenFirstError ==
    (Parsed /\ HasIPAlone(ParsedLines))
        => LET before == parseWeights(BeforeIPAlone(ParsedLines), isRandom).err
           IN  /\ lastLoad.err \in ParseErrors
               /\ lastLoad.err = IF before = NoErr THEN ErrDomainName ELSE before

\* a reload has read a content with an IP literal alone on a line after a header
C18_Witness ==
    /\ IsReload /\ lastOp.changed
    /\ Parsed
    /\ HasIPAlone(ParsedLines)
    /\ \E j \in 1..Len(BeforeIPAlone(ParsedLines)) : DomainHeader(ParsedLines[j])
    /\ lastOp.err = ErrDomainName

\* C19 as stated: every reorder returns a list; none ends in a panic.
C19_ReorderNeverCrashes ==
    lastOp.op = "weightedRoundRobin" => (~crashed /\ lastOp.err = NoErr)

\* the records of one type class of a list, in their order
OfClass(rrs, rank) == LET Test(r) == ClassRank(r) = rank IN SelectSeq(rrs, Test)

\* the address records of the input with the first one equal to the expected top IP
\* exchanged with the one in front
TopFirst(in, exp) ==
    LET a == OfClass(in, 3)
        i == CHOOSE n \in 1..Len(a) : a[n].a = exp /\ \A j \in 1..(n - 1) : a[j].a /= exp
    IN  [n \in 1..Len(a) |-> IF n = 1 THEN a[i] ELSE IF n = i THEN a[1] ELSE a[n]]

\* C20: the list returned by a reorder that applied a match is the alias records of
\* the input, then its other records, then its address records with the expected top
\* address in front, then its mail-exchange records.
C20_MatchedOrder ==
    (IsReorder /\ lastOp.ok)
        => lastOp.out = OfClass(lastOp.in, 1) \o OfClass(lastOp.in, 2)
                            \o TopFirst(lastOp.in, lastOp.exp) \o OfClass(lastOp.in, 4)

\* a match applied to an answer with records of all four classes, out of class order,
\* the expected top address not in front
C20_Witness ==
    /\ IsReorder /\ lastOp.ok
    /\ \A c \in 1..4 : Len(OfClass(lastOp.in, c)) >= 2
    /\ ~ClassOrdered(lastOp.in)
    /\ OfClass(lastOp.in, 3)[1].a /= lastOp.exp
    /\ lastOp.out /= lastOp.in

\* how many records of a list are equal to r
CountOf(rrs, r) == Cardinality({i \in 1..Len(rrs) : rrs[i] = r})

\* two lists hold the same records the same number of times
IsPermutation(a, b) ==
    /\ Len(a) = Len(b)
    /\ \A i \in 1..Len(a) : CountOf(a, a[i]) = CountOf(b, a[i])

\* the places of the address records equal to the expected top IP
Hits(a, exp) == {n \in 1..Len(a) : a[n].a = exp}

\* C21: the list a reorder returns is a permutation of its input with the same number
\* of records of each class; the alias, other and mail-exchange records keep their
\* input order; the address records are in their input order but for the exchange of
\* the first of them with the first one equal to the expected top IP, when a match was
\* applied.
C21_PermutationOfInput ==
    IsReorder =>
        LET a == OfClass(lastOp.in, 3)
            b == OfClass(lastOp.out, 3)
        IN  /\ IsPermutation(lastOp.out, lastOp.in)
            /\ \A c \in 1..4 : Len(OfClass(lastOp.out, c)) = Len(OfClass(lastOp.in, c))
            /\ \A c \in {1, 2, 4} : OfClass(lastOp.out, c) = OfClass(lastOp.in, c)
            /\ Len(b) = Len(a)
            /\ IF lastOp.ok
               THEN /\ Hits(a, lastOp.exp) /= {}
                    /\ LET i == CHOOSE n \in Hits(a, lastOp.exp) :
                                     \A m \in Hits(a, lastOp.exp) : n <= m
                       IN  /\ b[1] = a[i]
                           /\ b[i] = a[1]
                           /\ \A n \in (1..Len(a)) \ {1, i} : b[n] = a[n]
               ELSE b = a

\* a match applied to an answer of all four classes whose third or later address
\* record is the first one equal to the expected top IP
C21_Witness ==
    /\ IsReorder /\ lastOp.ok
    /\ \A c \in 1..4 : Len(OfClass(lastOp.in, c)) >= 2
    /\ \A n \in Hits(OfClass(lastOp.in, 3), lastOp.exp) : n >= 3
    /\ OfClass(lastOp.out, 3) /= OfClass(lastOp.in, 3)

\* the addresses of a weight list
Addresses(ws) == {ws[i].address : i \in 1..Len(ws)}

\* a content-changing reload has succeeded at some time
LoadedOnce == lastLoad.good /= NoFile

\* C22 as stated: in every state after a successful content-changing reload, every
\* domain with a non-empty weight list has an expected top IP that is set and is the
\* address of one of its weight items; in deterministic mode, right after the reload,
\* it is the address of the first item.
C22_TopIPAlwaysSet ==
    (LoadedOnce /\ ~crashed) =>
        \A k \in DOMAIN domains :
            Len(domains[k].weights) > 0 =>
                /\ domains[k].topIP /= NilIP
                /\ domains[k].topIP \in Addresses(domains[k].weights)
                /\ (IsReload /\ lastOp.changed /\ lastOp.err = NoErr /\ ~isRandom)
                       => domains[k].topIP = domains[k].weights[1].address

\* the digest of the content of the last reload that succeeded
GoodDigest == IF lastLoad.good = NoFile THEN ZeroDigest ELSE DigestOf[lastLoad.good]

\* C23 as stated: the stored digest is the digest of the content of the last reload
\* that succeeded, and every reload that reads a content that does not parse reports
\* the parse error, also when it has read the same content before.
C23_DigestOfLastGoodLoad ==
    ~crashed =>
        /\ md5sum = GoodDigest
        /\ (IsReload /\ file /= NoFile /\ ParseOf[file][isRandom].err /= NoErr)
               => lastOp.err = ParseOf[file][isRandom].err

\* C28: in deterministic mode a reorder for a domain leaves the entry of every other
\* domain of the table as it was (cursor, repeat counter, expected top IP, weights)
\* and changes no weight of its own domain, and the k-th matched reorder of a domain
\* gets the k-th element of that domain's sequence whatever reorders for other domains
\* came in between.
C28_OtherDomainsUntouched ==
    [][(lastOp'.op = "weightedRoundRobin" /\ lastOp'.err = NoErr /\ ~isRandom)
          => /\ DOMAIN domains' = DOMAIN domains
             /\ \A k \in DOMAIN domains :
                    /\ k /= lastOp'.qname => domains'[k] = domains[k]
                    /\ domains'[k].weights = domains[k].weights
             /\ \A k \in DOMAIN matched : k /= lastOp'.qname => matched'[k] = matched[k]
             /\ (/\ lastOp'.ok
                 /\ lastLoad.err = NoErr
                 /\ WeightsInRange(domains[lastOp'.qname].weights))
                    => TopAddress(lastOp'.out)
                           = CycleAt(domains[lastOp'.qname].weights,
                                     matched[lastOp'.qname] + 1)]_vars

\* a matched reorder for one domain of a table of two, after matched reorders for
\* both of them, the two having been served a different number of times
C28_Witness ==
    /\ IsReorder /\ lastOp.ok /\ ~isRandom
    /\ lastLoad.err = NoErr
    /\ Cardinality(DOMAIN domains) = 2
    /\ \A k \in DOMAIN matched : matched[k] >= 2
    /\ \E k \in DOMAIN matched : matched[k] /= matched[lastOp.qname]

\* two headers of the content name the same domain, with or without its dot
RepeatedHeader(lines) ==
    \E i, j \in 1..Len(lines) :
        /\ i < j
        /\ DomainHeader(lines[i]) /\ DomainHeader(lines[j])
        /\ Normalize(lines[i][1]) = Normalize(lines[j][1])

\* C29: when a header names a domain that an earlier header of the file named, the
\* parse has one map entry for the name whose weight list is the entries of all its
\* sections in the order of the file, and the table a successful reload installs
\* holds all of them under that one key.
C29_RepeatedHeaderAppends ==
    (/\ IsReload /\ lastOp.changed /\ lastOp.err = NoErr
     /\ RepeatedHeader(Files[lastLoad.file]))
        => LET lines == Files[lastLoad.file]
               parsed == parseWeights(lines, isRandom).domains
           IN  /\ DOMAIN parsed = KeysOf(lines)
               /\ DOMAIN domains = KeysOf(lines)
               /\ \A k \in KeysOf(lines) :
                      /\ parsed[k].weights = EntriesOf(lines, k)
                      /\ Len(domains[k].weights) = Len(EntriesOf(lines, k))
                      /\ \A n \in 1..Len(EntriesOf(lines, k)) :
                             CountOf(domains[k].weights, EntriesOf(lines, k)[n])
                                 = CountOf(EntriesOf(lines, k), EntriesOf(lines, k)[n])

\* a reload has installed the table of a content whose repeated header has entries
\* in both of its sections, another domain's section being between them
C29_Witness ==
    /\ IsReload /\ lastOp.changed /\ lastOp.err = NoErr
    /\ RepeatedHeader(Files[lastLoad.file])
    /\ Cardinality(DOMAIN domains) = 2
    /\ \E k \in DOMAIN domains : Len(domains[k].weights) = 2
    /\ \E k \in DOMAIN domains : Len(domains[k].weights) = 1

\* C30 as stated: in deterministic mode, in every state, the cursor of a domain with
\* weight items is a place of its list and its repeat counter is less than the weight
\* of the item at the cursor.
C30_CursorAndCounterInRange ==
    (~isRandom /\ ~crashed) =>
        \A k \in DOMAIN domains :
            LET d == domains[k]
            IN  Len(d.weights) > 0 =>
                    /\ d.topIPupdater.index \in 0..(Len(d.weights) - 1)
                    /\ d.topIPupdater.count \in
                           0..(d.weights[d.topIPupdater.index + 1].value - 1)

\* C24 as stated: while a reload is opening, reading or parsing the weight file the
\* lock is free or held by some other operation.
C24_NoLockWhileReading ==
    /\ reloader = "reading" => mutex /= "ticker"
    /\ mutex /= "OnStartup"

\* C25 as stated: once the stop channel is closed the goroutine starts no call of
\* updateWeights, also when a tick was waiting in the channel of the ticker.
C25_NoReloadAfterStop ==
    [][stopReload => ~(reloader = "running" /\ reloader' = "called")]_vars

\* C26: under fair scheduling, once the stop channel is closed the goroutine of
\* periodicWeightUpdate exits at some time, and every call of weightedRoundRobin that
\* is in flight then or later returns.
C26_EventuallyExits ==
    /\ (stopReload /\ reloader /= "none") ~> (reloader = "exited")
    /\ \A c \in Callers : (stopReload /\ pending[c] /= NoKey) ~> (pending[c] = NoKey)

\* the goroutine has exited after the stop channel was closed, a tick is left in the
\* channel of the ticker and a call of weightedRoundRobin is in flight
C26_Witness ==
    /\ stopReload
    /\ reloader = "exited"
    /\ ticks
    /\ \E c \in Callers : pending[c] /= NoKey

\* the values of a weight list do not increase along it
NonIncreasing(ws) == \A i, j \in 1..Len(ws) : i < j => ws[i].value >= ws[j].value

\* C27 as stated: in deterministic mode every reorder that takes the lock finds the
\* weight list of its domain sorted and its expected top IP set, and the k-th matched
\* reorder of a domain, in the order in which the calls in flight take the lock, gets
\* the k-th element of the domain's sequence.
C27_SerializedOnSortedTable ==
    (/\ IsReorder /\ ~isRandom
     /\ lastOp.qname \in DOMAIN domains
     /\ Len(domains[lastOp.qname].weights) > 0)
        => /\ NonIncreasing(domains[lastOp.qname].weights)
           /\ lastOp.exp /= NilIP
           /\ lastOp.ok => TopAddress(lastOp.out)
                               = CycleAt(domains[lastOp.qname].weights, lastOp.k)

====
